---------------------------- MODULE Spec2Model ----------------------------
(***************************************************************************)
(* A model of PS5NORModifierPY's serial link and error-code cache          *)
(* (src/src/uart_handler.py, class UartHandler) and of its NOR image       *)
(* (src/src/nor_handler.py, class NorHandler).                             *)
(*                                                                         *)
(* Text is modelled character by character: a Python str is a sequence of  *)
(* one-character strings, so that startswith, split, strip, upper and the  *)
(* regular expression of validate_error_code are computed as the code      *)
(* computes them.  Python's None is the one-element sequence NoneText,     *)
(* which is no text since "<None>" is not a character.                     *)
(***************************************************************************)
EXTENDS Integers, Sequences, FiniteSets, TLC

\* How many serial connections the environment lets one run open in total.
MaxConn == 2

\* How many bytes at most a failing write of the NOR file is taken to have
\* written before it failed.
MaxWritten == 3

---------------------------------------------------------------------------
(* Text literals of the source.                                            *)

NoneText == <<"<None>">>
AbsentElement == <<"<absent>">>

ERROR_PREFIX == <<"E", "R", "R", "O", "R", ":">>
ERROR_CODE_LABEL == <<"E", "r", "r", "o", "r", " ", "c", "o", "d", "e", ":", " ">>
DESCRIPTION_LABEL == <<"\n", "D", "e", "s", "c", "r", "i", "p", "t", "i", "o", "n", ":", " ">>
BLOCK_SEPARATOR == <<"\n", "\n">>
NONE_AS_STR == <<"N", "o", "n", "e">>
UNKNOWN_ERROR == <<"U", "n", "k", "n", "o", "w", "n", " ", "e", "r", "r", "o", "r">>
GET_ERROR_CODES == <<"g", "e", "t", "_", "e", "r", "r", "o", "r", "_", "c", "o", "d", "e", "s">>
CLEAR_ERROR_CODES == <<"c", "l", "e", "a", "r", "_", "e", "r", "r", "o", "r", "_", "c", "o", "d", "e", "s">>
OK_TEXT == <<"O", "K">>
ROOT_TAG == "errorCodes"
HTTP_OK == 200

\* The messages of the UartError each failure carries (its kind).
NoError == ""
NotConnected == "Not connected to UART device"
InvalidCommand == "Invalid command format"
SendFailed == "Failed to send UART command"
SendUnexpected == "Unexpected error sending UART command"
SendCustomFailed == "Failed to send custom UART command"
SendCustomUnexpected == "Unexpected error sending custom UART command"
HandleFailed == "Failed to handle error response"
InvalidPort == "Invalid port name"
ConnectFailure == "Failed to connect to UART device"
ConnectUnexpected == "Unexpected error connecting to UART device"
DisconnectFailure == "Failed to disconnect from UART device"
CloseOtherError == "OSError"
\* An AttributeError, which is no UartError, names its class.
NoSerialTools == "AttributeError"
InvalidCode == "Invalid error code format"
FetchFailed == "Failed to fetch error description from online database"
ParseFailed == "Failed to parse error description response"
LookupUnexpected == "Unexpected error getting error description"
GetCodesFailed == "Failed to get error codes"
ClearCodesFailed == "Failed to clear error codes"
InitFailed == "Failed to initialize error database"
DownloadFailed == "Failed to download error database"
DownloadParseFailed == "Failed to parse error database response"
DownloadUnexpected == "Unexpected error downloading error database"
SaveWriteFailed == "Failed to write error codes database"
LoadInvalid == "Invalid error codes database format"

---------------------------------------------------------------------------
(* Python's str operations, on sequences of characters.                    *)

\* str.strip()'s characters, among those of the model's alphabet.
Whitespace == {" ", "\t", "\n", "\r"}

HexUpper == {"0", "1", "2", "3", "4", "5", "6", "7", "8", "9",
             "A", "B", "C", "D", "E", "F"}

LowerToUpper ==
  { <<"a", "A">>, <<"b", "B">>, <<"c", "C">>, <<"d", "D">>, <<"e", "E">>,
    <<"f", "F">>, <<"g", "G">>, <<"h", "H">>, <<"i", "I">>, <<"j", "J">>,
    <<"k", "K">>, <<"l", "L">>, <<"m", "M">>, <<"n", "N">>, <<"o", "O">>,
    <<"p", "P">>, <<"q", "Q">>, <<"r", "R">>, <<"s", "S">>, <<"t", "T">>,
    <<"u", "U">>, <<"v", "V">>, <<"w", "W">>, <<"x", "X">>, <<"y", "Y">>,
    <<"z", "Z">> }

UpperOf ==
  [c \in {p[1] : p \in LowerToUpper} |->
     (CHOOSE p \in LowerToUpper : p[1] = c)[2]]

UpperChar(c) == IF c \in DOMAIN UpperOf THEN UpperOf[c] ELSE c

Upper(s) == [i \in 1..Len(s) |-> UpperChar(s[i])]

StartsWith(s, prefix) ==
  /\ Len(s) >= Len(prefix)
  /\ SubSeq(s, 1, Len(prefix)) = prefix

\* s.strip(): from the first to the last character that is no whitespace.
Strip(s) ==
  LET kept == {i \in 1..Len(s) : s[i] \notin Whitespace} IN
  IF kept = {} THEN <<>>
  ELSE SubSeq(s, CHOOSE i \in kept : \A j \in kept : i <= j,
                 CHOOSE i \in kept : \A j \in kept : i >= j)

\* s.split(sep): the pieces between the separators, at least one piece.
\* (start is where the current piece begins, i the character looked at.)
RECURSIVE SplitFrom(_, _, _, _)
SplitFrom(s, sep, start, i) ==
  IF i > Len(s) THEN <<SubSeq(s, start, Len(s))>>
  ELSE IF s[i] = sep
  THEN <<SubSeq(s, start, i - 1)>> \o SplitFrom(s, sep, i + 1, i + 1)
  ELSE SplitFrom(s, sep, start, i + 1)

Split(s, sep) == SplitFrom(s, sep, 1, 1)

\* sep.join(parts)
RECURSIVE Join(_, _)
Join(parts, sep) ==
  IF parts = <<>> THEN <<>>
  ELSE IF Len(parts) = 1 THEN parts[1]
  ELSE parts[1] \o sep \o Join(Tail(parts), sep)

\* f"{desc}": None is written as the four characters None.
StrOf(v) == IF v = NoneText THEN NONE_AS_STR ELSE v

\* Body(value), with value computed once.
With(value, Body(_)) == CHOOSE out \in {Body(v) : v \in {value}} : TRUE

---------------------------------------------------------------------------
(* Validation.                                                             *)

\* A validation that accepts every text.
validate_error_code_any(error_code) == TRUE

\* re.match(r'^[0-9A-F]{8}$', error_code.upper()): eight hexadecimal digits,
\* and "$" also matches just before one final line feed.
validate_error_code(error_code) ==
  LET u == Upper(error_code) IN
  /\ Len(u) \in {8, 9}
  /\ \A i \in 1..8 : u[i] \in HexUpper
  /\ Len(u) = 9 => u[9] = "\n"

\* bool(command and '\n' not in command)
validate_command(command) ==
  /\ command # <<>>
  /\ \A i \in 1..Len(command) : command[i] # "\n"

\* for port in serial.tools.list_ports.comports(): the module's "import
\* serial" does not load the submodule serial.tools.list_ports, so the
\* attribute lookup raises AttributeError unless the process that hosts the
\* handler has loaded the submodule (serial_tools).
list_ports(listed, serial_tools) ==
  [raised |-> IF serial_tools THEN NoError ELSE NoSerialTools,
   devices |-> IF serial_tools THEN listed ELSE {}]

\* bool(port and port in [p['device'] for p in self.list_ports()]): an
\* empty port is rejected before list_ports is called.
validate_port(port, listed, serial_tools) ==
  IF port = ""
  THEN [raised |-> NoError, flag |-> FALSE]
  ELSE [raised |-> list_ports(listed, serial_tools).raised,
        flag |-> /\ list_ports(listed, serial_tools).raised = NoError
                 /\ port \in list_ports(listed, serial_tools).devices]

---------------------------------------------------------------------------
(* Checksum framing.                                                       *)

\* ord(c) for the characters of the model's alphabet.  "<00>" is the NUL
\* character and "<e9>" the character U+00E9, each one character.
OrdTable ==
  { <<"<00>", 0>>, <<"<e9>", 233>>, <<"\t", 9>>, <<"\n", 10>>, <<"\r", 13>>, <<" ", 32>>, <<",", 44>>,
    <<"-", 45>>, <<".", 46>>, <<"0", 48>>, <<"1", 49>>, <<"2", 50>>,
    <<"3", 51>>, <<"4", 52>>, <<"5", 53>>, <<"6", 54>>, <<"7", 55>>,
    <<"8", 56>>, <<"9", 57>>, <<":", 58>>, <<"A", 65>>, <<"B", 66>>,
    <<"C", 67>>, <<"D", 68>>, <<"E", 69>>, <<"F", 70>>, <<"G", 71>>,
    <<"H", 72>>, <<"I", 73>>, <<"J", 74>>, <<"K", 75>>, <<"L", 76>>,
    <<"M", 77>>, <<"N", 78>>, <<"O", 79>>, <<"P", 80>>, <<"Q", 81>>,
    <<"R", 82>>, <<"S", 83>>, <<"T", 84>>, <<"U", 85>>, <<"V", 86>>,
    <<"W", 87>>, <<"X", 88>>, <<"Y", 89>>, <<"Z", 90>>, <<"_", 95>>,
    <<"a", 97>>, <<"b", 98>>, <<"c", 99>>, <<"d", 100>>, <<"e", 101>>,
    <<"f", 102>>, <<"g", 103>>, <<"h", 104>>, <<"i", 105>>, <<"j", 106>>,
    <<"k", 107>>, <<"l", 108>>, <<"m", 109>>, <<"n", 110>>, <<"o", 111>>,
    <<"p", 112>>, <<"q", 113>>, <<"r", 114>>, <<"s", 115>>, <<"t", 116>>,
    <<"u", 117>>, <<"v", 118>>, <<"w", 119>>, <<"x", 120>>, <<"y", 121>>,
    <<"z", 122>> }

OrdOf ==
  [c \in {p[1] : p \in OrdTable} |-> (CHOOSE p \in OrdTable : p[1] = c)[2]]

Ord(c) == OrdOf[c]

HexDigits == <<"0", "1", "2", "3", "4", "5", "6", "7", "8", "9",
               "A", "B", "C", "D", "E", "F">>

\* f"{n:02X}" for n in 0..255
Hex02X(n) == <<HexDigits[(n \div 16) + 1], HexDigits[(n % 16) + 1]>>

RECURSIVE SumOrdTo(_, _)
SumOrdTo(s, n) == IF n = 0 THEN 0 ELSE Ord(s[n]) + SumOrdTo(s, n - 1)

SumOrd(s) == SumOrdTo(s, Len(s))

\* checksum = sum(ord(c) for c in data) & 0xFF;  f"{data}:{checksum:02X}"
calculate_checksum(data) == data \o <<":">> \o Hex02X(SumOrd(data) % 256)

---------------------------------------------------------------------------
(* The error-code cache (a Python dict, which keeps insertion order) and   *)
(* the XML documents: the persisted file and the remote service's bodies.  *)

\* A dict is a sequence of <<key, value>> pairs with distinct keys.
EmptyDict == <<>>
Keys(db) == {db[i][1] : i \in 1..Len(db)}
HasKey(db, k) == \E i \in 1..Len(db) : db[i][1] = k
Lookup(db, k) == db[CHOOSE i \in 1..Len(db) : db[i][1] = k][2]

\* db[k] = v: overwrite in place, or append a new key.
DictSet(db, k, v) ==
  IF HasKey(db, k)
  THEN [i \in 1..Len(db) |-> IF db[i][1] = k THEN <<k, v>> ELSE db[i]]
  ELSE Append(db, <<k, v>>)

\* An XML document: whether it parses, its root tag, and its errorCode
\* elements, each with the character data of its ErrorCode and Description
\* children (AbsentElement when the child is missing).
XmlDoc(wellformed, root, entries) ==
  [wellformed |-> wellformed, root |-> root, entries |-> entries]

EmptyXml == XmlDoc(TRUE, ROOT_TAG, <<>>)
MalformedXml == XmlDoc(FALSE, "", <<>>)

\* The parser's end-of-line handling: "\r\n" and a lone "\r" are read as
\* "\n".
RECURSIVE NormalizeEol(_)
NormalizeEol(content) ==
  IF content = <<>> THEN <<>>
  ELSE IF Head(content) # "\r"
  THEN <<Head(content)>> \o NormalizeEol(Tail(content))
  ELSE IF Len(content) > 1 /\ content[2] = "\n"
  THEN <<"\n">> \o NormalizeEol(Tail(Tail(content)))
  ELSE <<"\n">> \o NormalizeEol(Tail(content))

\* Element.text after parsing: None for an element without character data.
ElementText(content) ==
  IF content = <<>> THEN NoneText ELSE NormalizeEol(content)

\* What ElementTree writes for Element.text: nothing for None and for "".
TextContent(text) == IF text = NoneText THEN <<>> ELSE text

\* code is not None and desc is not None (find() found both children)
HasBoth(entry) == entry.code # AbsentElement /\ entry.desc # AbsentElement

\* The document save_error_codes builds from the dict.
DocumentOf(db) ==
  XmlDoc(TRUE, ROOT_TAG,
         [i \in 1..Len(db) |->
            [code |-> TextContent(db[i][1]), desc |-> TextContent(db[i][2])]])

\* The persisted file: absent, or holding a document.
FileOf(exists, xml) == [exists |-> exists, xml |-> xml]
NoFile == FileOf(FALSE, EmptyXml)

\* The mapping a document holds, as load_error_codes reads it.
RECURSIVE LoadEntries(_, _)
LoadEntries(entries, db) ==
  IF entries = <<>> THEN db
  ELSE LET e == Head(entries) IN
       LoadEntries(Tail(entries),
                   IF HasBoth(e)
                   THEN DictSet(db, ElementText(e.code), ElementText(e.desc))
                   ELSE db)

\* The outcomes of writing the file: written; failed before the file was
\* opened (left as it was); failed while writing (left truncated).
SaveOutcomes == {"ok", "fail_before", "fail_partial"}

save_error_codes(db, file, outcome) ==
  CASE outcome = "ok" ->
         [file |-> FileOf(TRUE, DocumentOf(db)), raised |-> NoError]
    [] outcome = "fail_before" -> [file |-> file, raised |-> SaveWriteFailed]
    [] OTHER -> [file |-> FileOf(TRUE, MalformedXml), raised |-> SaveWriteFailed]

\* load_error_codes: a missing file and a document with another root load
\* nothing; an unparseable document raises.
load_error_codes(db, file) ==
  IF ~file.exists THEN [db |-> db, raised |-> NoError]
  ELSE IF ~file.xml.wellformed THEN [db |-> db, raised |-> LoadInvalid]
  ELSE IF file.xml.root = ROOT_TAG
       THEN [db |-> LoadEntries(file.xml.entries, db), raised |-> NoError]
       ELSE [db |-> db, raised |-> NoError]

---------------------------------------------------------------------------
(* The remote lookup service: what one requests.get yields.                *)

Transport == [kind |-> "transport", status |-> 0, xml |-> MalformedXml]
Http(status, xml) == [kind |-> "http", status |-> status, xml |-> xml]

\* The request made, by its URL: the whole catalog, or one code.
RequestAll == [url |-> "xml.php", code |-> NoneText]
RequestOne(error_code) == [url |-> "xml.php?errorCode=", code |-> error_code]

\* The first errorCode element with both children whose ErrorCode text is
\* the code asked for (0 when there is none).
MatchIndex(entries, error_code) ==
  LET hits == {i \in 1..Len(entries) :
                 /\ HasBoth(entries[i])
                 /\ ElementText(entries[i].code) = error_code}
  IN IF hits = {} THEN 0 ELSE CHOOSE i \in hits : \A j \in hits : i <= j

\* if error_code in self.error_codes_db
CacheHit_never(db, error_code) == FALSE

CacheHit(db, error_code) == HasKey(db, error_code)

\* The failure get_error_description raises for a remote outcome, if any:
\* requests.RequestException, or ET.ParseError on a 200 body.
FetchFailure_swallowed(remote) == NoError

FetchFailure(remote) ==
  IF remote.kind = "transport" THEN FetchFailed
  ELSE IF remote.status = HTTP_OK /\ ~remote.xml.wellformed THEN ParseFailed
  ELSE NoError

GedResult(db, file, raised, ret, requests) ==
  [db |-> db, file |-> file, raised |-> raised, ret |-> ret,
   requests |-> requests]

get_error_description(db, file, error_code, remote, save) ==
  IF ~validate_error_code(error_code)
  THEN GedResult(db, file, InvalidCode, NoneText, <<>>)
  ELSE IF CacheHit(db, error_code)
  THEN GedResult(db, file, NoError, Lookup(db, error_code), <<>>)
  ELSE
    LET req == <<RequestOne(error_code)>>
        m == IF remote.kind = "http" /\ remote.status = HTTP_OK
                /\ remote.xml.wellformed /\ remote.xml.root = ROOT_TAG
             THEN MatchIndex(remote.xml.entries, error_code)
             ELSE 0
    IN IF FetchFailure(remote) # NoError
       THEN GedResult(db, file, FetchFailure(remote), NoneText, req)
       ELSE IF m = 0
       THEN GedResult(db, file, NoError, UNKNOWN_ERROR, req)
       ELSE LET text == ElementText(remote.xml.entries[m].desc)
                db1 == DictSet(db, error_code, text)
                saved == save_error_codes(db1, file, save)
            IN IF saved.raised # NoError
               THEN GedResult(db1, saved.file, LookupUnexpected, NoneText, req)
               ELSE GedResult(db1, saved.file, NoError, text, req)

---------------------------------------------------------------------------
(* handle_error_response and the commands built on send_command.           *)

\* What the environment gives the n-th lookup of one call: the remote
\* service's answer and the outcome of the save that may follow it.  The
\* last one repeats.
NthOutcome(outcomes, n) ==
  outcomes[IF n <= Len(outcomes) THEN n ELSE Len(outcomes)]

\* The loop of handle_error_response over the pieces of the response.
RECURSIVE HandleCodes(_, _, _, _, _, _)
HandleCodes(codes, db, file, lookups, messages, requests) ==
  IF codes = <<>>
  THEN GedResult(db, file, NoError, Join(messages, BLOCK_SEPARATOR), requests)
  ELSE LET code == Strip(Head(codes)) IN
       IF ~validate_error_code(code)
       THEN HandleCodes(Tail(codes), db, file, lookups, messages, requests)
       ELSE With(get_error_description(
                   db, file, code,
                   NthOutcome(lookups, Len(requests) + 1).remote,
                   NthOutcome(lookups, Len(requests) + 1).save),
                 LAMBDA r :
                   IF r.raised # NoError
                   THEN GedResult(r.db, r.file, HandleFailed, NoneText,
                                  requests \o r.requests)
                   ELSE HandleCodes(Tail(codes), r.db, r.file, lookups,
                                    Append(messages,
                                           ERROR_CODE_LABEL \o code
                                             \o DESCRIPTION_LABEL
                                             \o StrOf(r.ret)),
                                    requests \o r.requests))

handle_error_response(db, file, response, lookups) ==
  IF StartsWith(response, ERROR_PREFIX)
  THEN HandleCodes(Split(SubSeq(response, 7, Len(response)), ","),
                   db, file, lookups, <<>>, <<>>)
  ELSE GedResult(db, file, NoError, response, <<>>)

\* What the serial connection does with one command: the write raises, the
\* read raises (both serial.SerialException), the line read does not decode,
\* or a line is read.
IoWriteError == [kind |-> "write_error", line |-> <<>>]
IoReadError == [kind |-> "read_error", line |-> <<>>]
IoUndecodable == [kind |-> "undecodable", line |-> <<>>]
IoLine(line) == [kind |-> "line", line |-> line]

\* The calls made on the serial connection, in order.
WriteEvent(conn, data) == [ev |-> "write", conn |-> conn, data |-> data]
ReadEvent(conn) == [ev |-> "readline", conn |-> conn, data |-> <<>>]

SendResult(db, file, raised, ret, events, requests, response) ==
  [db |-> db, file |-> file, raised |-> raised, ret |-> ret,
   events |-> events, requests |-> requests, response |-> response]

\* The checks of send_command before any I/O, in the code's order.
SendGuard_validate_first(connection, command) ==
  IF ~validate_command(command) THEN InvalidCommand
  ELSE IF connection = 0 THEN NotConnected
  ELSE NoError

SendGuard(connection, command) ==
  IF connection = 0 THEN NotConnected
  ELSE IF ~validate_command(command) THEN InvalidCommand
  ELSE NoError

send_command(connection, db, file, command, io, lookups) ==
  IF SendGuard(connection, command) # NoError
  THEN SendResult(db, file, SendGuard(connection, command), NoneText,
                  <<>>, <<>>, NoneText)
  ELSE
    LET framed == calculate_checksum(command) \o <<"\n">>
        wrote == <<WriteEvent(connection, framed)>>
        both == Append(wrote, ReadEvent(connection))
    IN CASE io.kind = "write_error" ->
              SendResult(db, file, SendFailed, NoneText, wrote, <<>>, NoneText)
         [] io.kind = "read_error" ->
              SendResult(db, file, SendFailed, NoneText, both, <<>>, NoneText)
         [] io.kind = "undecodable" ->
              SendResult(db, file, SendUnexpected, NoneText, both, <<>>,
                         NoneText)
         [] OTHER ->
              With(handle_error_response(db, file, Strip(io.line), lookups),
                   LAMBDA h :
                     SendResult(h.db, h.file,
                                IF h.raised # NoError THEN SendUnexpected
                                ELSE NoError,
                                h.ret, both, h.requests, Strip(io.line)))

\* send_custom_command: send_command's steps, with its own messages for
\* the failures of the write, the read and the handling of the response.
send_custom_command(connection, db, file, command, io, lookups) ==
  With(send_command(connection, db, file, command, io, lookups),
       LAMBDA sent :
         [sent EXCEPT !.raised =
            IF sent.raised = SendFailed THEN SendCustomFailed
            ELSE IF sent.raised = SendUnexpected THEN SendCustomUnexpected
            ELSE sent.raised])

\* [code.strip() for code in codes
\*    if code.strip() and self.validate_error_code(code.strip())]
RECURSIVE ValidCodes(_)
ValidCodes(codes) ==
  IF codes = <<>> THEN <<>>
  ELSE LET code == Strip(Head(codes)) IN
       IF code # <<>> /\ validate_error_code(code)
       THEN <<code>> \o ValidCodes(Tail(codes))
       ELSE ValidCodes(Tail(codes))

\* The list get_error_codes parses from a response text.
ParseCodeList(response) ==
  IF response # NoneText /\ response # <<>>
     /\ StartsWith(response, ERROR_PREFIX)
  THEN ValidCodes(Split(SubSeq(response, 7, Len(response)), ","))
  ELSE <<>>

CodesResult(sent, raised, codes, flag) ==
  [db |-> sent.db, file |-> sent.file, raised |-> raised, ret |-> sent.ret,
   events |-> sent.events, requests |-> sent.requests,
   response |-> sent.response, codes |-> codes, flag |-> flag]

\* get_error_codes parses what send_command returns, which is the response
\* after handle_error_response.
get_error_codes(connection, db, file, io, lookups) ==
  With(send_command(connection, db, file, GET_ERROR_CODES, io, lookups),
       LAMBDA sent :
         IF connection = 0 THEN CodesResult(sent, NotConnected, <<>>, FALSE)
         ELSE IF sent.raised # NoError
         THEN CodesResult(sent, GetCodesFailed, <<>>, FALSE)
         ELSE CodesResult(sent, NoError, ParseCodeList(sent.ret), FALSE))

clear_error_codes(connection, db, file, io, lookups) ==
  With(send_command(connection, db, file, CLEAR_ERROR_CODES, io, lookups),
       LAMBDA sent :
         IF connection = 0 THEN CodesResult(sent, NotConnected, <<>>, FALSE)
         ELSE IF sent.raised # NoError
         THEN CodesResult(sent, ClearCodesFailed, <<>>, FALSE)
         ELSE CodesResult(sent, NoError, <<>>, sent.ret = OK_TEXT))

---------------------------------------------------------------------------
(* download_error_database and initialize_error_database.                  *)

DownloadResult(db, file, raised, flag, requests) ==
  [db |-> db, file |-> file, raised |-> raised, flag |-> flag,
   requests |-> requests]

\* The loop over the payload's errorCode elements: the dict so far, and
\* whether validate_error_code was given None (code.text of an empty
\* ErrorCode element), which raises.
RECURSIVE FillFrom(_, _)
FillFrom(entries, db) ==
  IF entries = <<>> THEN [db |-> db, raised |-> FALSE]
  ELSE LET e == Head(entries) IN
       IF ~HasBoth(e) THEN FillFrom(Tail(entries), db)
       ELSE IF ElementText(e.code) = NoneText
       THEN [db |-> db, raised |-> TRUE]
       ELSE IF validate_error_code(ElementText(e.code))
       THEN FillFrom(Tail(entries),
                     DictSet(db, ElementText(e.code), ElementText(e.desc)))
       ELSE FillFrom(Tail(entries), db)

download_error_database(db, file, remote, save) ==
  LET req == <<RequestAll>> IN
  IF remote.kind = "transport"
  THEN DownloadResult(db, file, DownloadFailed, FALSE, req)
  ELSE IF remote.status # HTTP_OK
  THEN DownloadResult(db, file, NoError, FALSE, req)
  ELSE IF ~remote.xml.wellformed
  THEN DownloadResult(db, file, DownloadParseFailed, FALSE, req)
  ELSE IF remote.xml.root # ROOT_TAG
  THEN DownloadResult(db, file, NoError, FALSE, req)
  ELSE With(FillFrom(remote.xml.entries, EmptyDict),
            LAMBDA filled :
              LET saved == save_error_codes(filled.db, file, save) IN
              IF filled.raised
              THEN DownloadResult(filled.db, file, DownloadUnexpected, FALSE,
                                  req)
              ELSE IF saved.raised # NoError
              THEN DownloadResult(filled.db, saved.file, DownloadUnexpected,
                                  FALSE, req)
              ELSE DownloadResult(filled.db, saved.file, NoError, TRUE, req))

\* if not os.path.exists(self.db_path): return self.download_error_database()
\* return True
initialize_error_database(db, file, remote, save) ==
  IF ~file.exists
  THEN With(download_error_database(db, file, remote, save),
            LAMBDA d :
              DownloadResult(d.db, d.file,
                             IF d.raised # NoError THEN InitFailed
                             ELSE NoError,
                             d.flag, d.requests))
  ELSE DownloadResult(db, file, NoError, TRUE, <<>>)

---------------------------------------------------------------------------
(* connect and disconnect.                                                 *)

CloseEvent(conn) == [ev |-> "close", conn |-> conn, data |-> <<>>]

LinkResult(connection, openConns, nextConn, raised, flag, events) ==
  [connection |-> connection, openConns |-> openConns,
   nextConn |-> nextConn, raised |-> raised, flag |-> flag,
   events |-> events]

\* serial.Serial(port, baudrate, timeout=1) opens a new connection and
\* self.connection is assigned it; the code does not close the connection
\* the handler held before.  Whether that one is closed when its last
\* reference goes (collected) is the runtime's choice.  validate_port is
\* called outside the try: what it raises reaches the caller as it is.
connect(connection, openConns, nextConn, port, listed, tools, open, collected) ==
  IF validate_port(port, listed, tools).raised # NoError
  THEN LinkResult(connection, openConns, nextConn,
                  validate_port(port, listed, tools).raised, FALSE, <<>>)
  ELSE IF ~validate_port(port, listed, tools).flag
  THEN LinkResult(connection, openConns, nextConn, InvalidPort, FALSE, <<>>)
  ELSE IF open = "serial_error"
  THEN LinkResult(connection, openConns, nextConn, ConnectFailure, FALSE, <<>>)
  ELSE IF open = "other_error"
  THEN LinkResult(connection, openConns, nextConn, ConnectUnexpected, FALSE,
                  <<>>)
  ELSE LinkResult(nextConn + 1,
                  (IF collected THEN openConns \ {connection} ELSE openConns)
                    \cup {nextConn + 1},
                  nextConn + 1, NoError, TRUE, <<>>)

\* finally: self.connection = None
ConnectionAfterClose_no_finally(connection, close) ==
  IF close = "ok" THEN 0 ELSE connection

ConnectionAfterClose(connection, close) == 0

\* close() may raise serial.SerialException, which is wrapped, or another
\* exception, which passes through; whether a close that raised released
\* the port is the driver's choice.
disconnect(connection, openConns, nextConn, close, released) ==
  IF connection = 0
  THEN LinkResult(connection, openConns, nextConn, NoError, FALSE, <<>>)
  ELSE LinkResult(ConnectionAfterClose(connection, close),
                  IF close = "ok" \/ released
                  THEN openConns \ {connection} ELSE openConns,
                  nextConn,
                  CASE close = "ok" -> NoError
                    [] close = "serial_error" -> DisconnectFailure
                    [] OTHER -> CloseOtherError,
                  FALSE, <<CloseEvent(connection)>>)

---------------------------------------------------------------------------
(* The NOR image: a bytearray, kept as runs <<count, byte>> of equal       *)
(* bytes (adjacent runs differ, no run is empty), and Python's slices.     *)

\* NorHandler's offsets and lengths.
OFFSET_ONE == 1863696
OFFSET_TWO == 1863728
WIFI_MAC_OFFSET == 1864640
LAN_MAC_OFFSET == 1851424
SERIAL_OFFSET == 1864208
VARIANT_OFFSET == 1864230
MOBO_SERIAL_OFFSET_in_serial == SERIAL_OFFSET + 8
MOBO_SERIAL_OFFSET == 1864192
SERIAL_LENGTH == 16
MAC_LENGTH == 6

\* self.nor_data is None: no run has count 0, so this is no bytearray.
NoData == <<<<0, 0>>>>

\* NorError's messages, and the messages they carry as details.
NoNorData == "No NOR data loaded"
InvalidOffset == "Invalid offset or length"
StringTooLong == "String too long"
NotAscii == "ordinal not in range(128)"
InvalidSerialLength == "Invalid serial number length"
ReadUnexpected == "Unexpected error reading string"
WriteUnexpected == "Unexpected error writing string"
EncodeFailed == "Failed to encode string"
ReadSerialFailed == "Failed to read serial number"
SetSerialFailed == "Failed to set serial number"
ReadVersionFailed == "Failed to read version"
SetVersionFailed == "Failed to set version"
ReadMoboFailed == "Failed to read motherboard serial"
ReadWifiFailed == "Failed to read WiFi MAC"
ReadLanFailed == "Failed to read LAN MAC"
FileNotFound == "NOR file not found"
FileEmpty == "Loaded NOR file is empty"
FileReadFailed == "Failed to read NOR file"
NoNorToSave == "No NOR data to save"
WriteNorFailed == "Failed to write NOR file"
LoadUnexpected == "Unexpected error loading NOR file"

Min(a, b) == IF a <= b THEN a ELSE b
Max(a, b) == IF a >= b THEN a ELSE b

\* len(data)
RECURSIVE ImageLen(_)
ImageLen(data) ==
  IF data = <<>> THEN 0 ELSE data[1][1] + ImageLen(Tail(data))

\* not self.nor_data: None, or a bytearray without bytes
NoImage(data) == data = NoData \/ data = <<>>

\* Adjacent runs of one byte are one run.
RECURSIVE Joined(_)
Joined(runs) ==
  IF runs = <<>> THEN <<>>
  ELSE IF runs[1][1] = 0 THEN Joined(Tail(runs))
  ELSE With(Joined(Tail(runs)),
            LAMBDA rest :
              IF rest # <<>> /\ rest[1][2] = runs[1][2]
              THEN <<<<runs[1][1] + rest[1][1], runs[1][2]>>>> \o Tail(rest)
              ELSE <<runs[1]>> \o rest)

\* The first k bytes, and the bytes after them.
RECURSIVE TakeBytes(_, _)
TakeBytes(data, k) ==
  IF k <= 0 \/ data = <<>> THEN <<>>
  ELSE IF data[1][1] <= k
  THEN <<data[1]>> \o TakeBytes(Tail(data), k - data[1][1])
  ELSE <<<<k, data[1][2]>>>>

RECURSIVE DropBytes(_, _)
DropBytes(data, k) ==
  IF k <= 0 \/ data = <<>> THEN data
  ELSE IF data[1][1] <= k THEN DropBytes(Tail(data), k - data[1][1])
  ELSE <<<<data[1][1] - k, data[1][2]>>>> \o Tail(data)

\* A slice bound as Python reads it: counted from the end when negative,
\* and kept within 0..len.
SliceIndex(i, n) == IF i < 0 THEN Max(i + n, 0) ELSE Min(i, n)

\* data[a:b]
Slice(data, a, b) ==
  LET lo == SliceIndex(a, ImageLen(data))
      hi == SliceIndex(b, ImageLen(data))
  IN TakeBytes(DropBytes(data, lo), hi - lo)

\* data[a:b] = bytes: the bytes replace the slice, whatever their number.
SliceAssign(data, a, b, bytes) ==
  LET lo == SliceIndex(a, ImageLen(data))
      hi == Max(lo, SliceIndex(b, ImageLen(data)))
  IN Joined(TakeBytes(data, lo) \o bytes \o DropBytes(data, hi))

\* The bytes of some runs one by one, and the runs of some bytes.
RECURSIVE Expand(_)
Expand(runs) ==
  IF runs = <<>> THEN <<>>
  ELSE [i \in 1..runs[1][1] |-> runs[1][2]] \o Expand(Tail(runs))

RunsOf(bytes) == Joined([i \in 1..Len(bytes) |-> <<1, bytes[i]>>])

\* chr(b) for the bytes of the model's alphabet.
ChrOf ==
  [b \in {p[2] : p \in OrdTable} |-> (CHOOSE p \in OrdTable : p[2] = b)[1]]

\* bytes.decode('ascii', errors='ignore'): the bytes above 127 are left out.
IsAsciiByte(b) == b < 128
DecodeAscii(bytes) ==
  [i \in 1..Len(SelectSeq(bytes, IsAsciiByte)) |->
     ChrOf[SelectSeq(bytes, IsAsciiByte)[i]]]

\* s.strip('\x00'): from the first to the last character that is not NUL.
StripNul(s) ==
  LET kept == {i \in 1..Len(s) : s[i] # "<00>"} IN
  IF kept = {} THEN <<>>
  ELSE SubSeq(s, CHOOSE i \in kept : \A j \in kept : i <= j,
                 CHOOSE i \in kept : \A j \in kept : i >= j)

\* value.encode('ascii') raises for a character above 127.
IsAsciiText(value) == \A i \in 1..Len(value) : Ord(value[i]) < 128
EncodeAscii(value) == [i \in 1..Len(value) |-> Ord(value[i])]

\* value_bytes.ljust(length, b'\x00')
Ljust_unpadded(bytes, length) == bytes

Ljust(bytes, length) ==
  bytes \o [i \in 1..(length - Len(bytes)) |-> 0]

\* ':'.join(f'{b:02x}' for b in mac_bytes)
HexLowerDigits == <<"0", "1", "2", "3", "4", "5", "6", "7", "8", "9",
                    "a", "b", "c", "d", "e", "f">>
MacText(bytes) ==
  Join([i \in 1..Len(bytes) |->
          <<HexLowerDigits[(bytes[i] \div 16) + 1],
            HexLowerDigits[(bytes[i] % 16) + 1]>>], <<":">>)

\* What a NorHandler method gives: the image afterwards, the NorError
\* raised (its message) with the messages nested in its details, outermost
\* first, and the value returned.
NorResult(data, raised, cause, ret, flag) ==
  [data |-> data, raised |-> raised, cause |-> cause, ret |-> ret,
   flag |-> flag]

\* A failure that does not keep the image.
NorFailure_image_lost(data, raised, cause) ==
  NorResult(NoData, raised, cause, NoneText, FALSE)

\* A method that raises: the image is the one it was given.
NorFailure(data, raised, cause) ==
  NorResult(data, raised, cause, NoneText, FALSE)

\* A NorError caught by a method and raised again under the method's own
\* message, with str(e) as details.
Wrapped(r, message) == NorFailure(r.data, message, <<r.raised>> \o r.cause)

\* The bounds test of _read_string and _write_string.
OutOfRange(data, offset, length) ==
  offset < 0 \/ offset + length > ImageLen(data)

_read_string(data, offset, length) ==
  IF NoImage(data) THEN NorFailure(data, ReadUnexpected, <<NoNorData>>)
  ELSE IF OutOfRange(data, offset, length)
  THEN NorFailure(data, ReadUnexpected, <<InvalidOffset>>)
  ELSE NorResult(data, NoError, <<>>,
                 StripNul(DecodeAscii(
                   Expand(Slice(data, offset, offset + length)))),
                 FALSE)

_write_string(data, offset, value, length) ==
  IF NoImage(data) THEN NorFailure(data, WriteUnexpected, <<NoNorData>>)
  ELSE IF OutOfRange(data, offset, length)
  THEN NorFailure(data, WriteUnexpected, <<InvalidOffset>>)
  ELSE IF ~IsAsciiText(value)
  THEN NorFailure(data, EncodeFailed, <<NotAscii>>)
  ELSE IF Len(EncodeAscii(value)) > length
  THEN NorFailure(data, WriteUnexpected, <<StringTooLong>>)
  ELSE NorResult(SliceAssign(data, offset, offset + length,
                             RunsOf(Ljust(EncodeAscii(value), length))),
                 NoError, <<>>, NoneText, TRUE)

get_serial_number(data) ==
  With(_read_string(data, SERIAL_OFFSET, SERIAL_LENGTH),
       LAMBDA r : IF r.raised # NoError THEN Wrapped(r, ReadSerialFailed)
                  ELSE r)

\* if len(new_serial) != self.SERIAL_LENGTH
SerialLengthOk_at_most(new_serial) == Len(new_serial) <= SERIAL_LENGTH

SerialLengthOk(new_serial) == Len(new_serial) = SERIAL_LENGTH

set_serial_number(data, new_serial) ==
  IF ~SerialLengthOk(new_serial)
  THEN NorFailure(data, SetSerialFailed, <<InvalidSerialLength>>)
  ELSE With(_write_string(data, SERIAL_OFFSET, new_serial, SERIAL_LENGTH),
            LAMBDA w : IF w.raised # NoError THEN Wrapped(w, SetSerialFailed)
                       ELSE w)

DISC_EDITION == <<"D", "i", "s", "c", " ", "E", "d", "i", "t", "i", "o", "n">>
DIGITAL_EDITION ==
  <<"D", "i", "g", "i", "t", "a", "l", " ", "E", "d", "i", "t", "i", "o", "n">>
UNKNOWN_EDITION == <<"U", "n", "k", "n", "o", "w", "n">>

get_version(data) ==
  With(_read_string(data, OFFSET_ONE, 1),
       LAMBDA one :
         With(_read_string(data, OFFSET_TWO, 1),
              LAMBDA two :
                IF one.raised # NoError THEN Wrapped(one, ReadVersionFailed)
                ELSE IF two.raised # NoError
                THEN Wrapped(two, ReadVersionFailed)
                ELSE NorResult(
                       data, NoError, <<>>,
                       IF one.ret = <<"1">> /\ two.ret = <<"1">>
                       THEN DISC_EDITION
                       ELSE IF one.ret = <<"0">> /\ two.ret = <<"0">>
                       THEN DIGITAL_EDITION
                       ELSE UNKNOWN_EDITION,
                       FALSE)))

\* A set_version that writes the first flag only.
set_version_first_flag_only(data, is_disc_edition) ==
  With(_write_string(data, OFFSET_ONE,
                     IF is_disc_edition THEN <<"1">> ELSE <<"0">>, 1),
       LAMBDA one :
         IF one.raised # NoError THEN Wrapped(one, SetVersionFailed)
         ELSE one)

\* The second write starts from the image the first one left.
set_version(data, is_disc_edition) ==
  With(_write_string(data, OFFSET_ONE,
                     IF is_disc_edition THEN <<"1">> ELSE <<"0">>, 1),
       LAMBDA one :
         IF one.raised # NoError THEN Wrapped(one, SetVersionFailed)
         ELSE With(_write_string(one.data, OFFSET_TWO,
                                 IF is_disc_edition THEN <<"1">>
                                 ELSE <<"0">>, 1),
                   LAMBDA two :
                     IF two.raised # NoError
                     THEN Wrapped(two, SetVersionFailed)
                     ELSE two))

get_motherboard_serial(data) ==
  With(_read_string(data, MOBO_SERIAL_OFFSET, SERIAL_LENGTH),
       LAMBDA r : IF r.raised # NoError THEN Wrapped(r, ReadMoboFailed)
                  ELSE r)

\* The MAC accessors slice the image without a bounds test.
MacAt(data, offset, message) ==
  IF NoImage(data) THEN NorFailure(data, message, <<NoNorData>>)
  ELSE NorResult(data, NoError, <<>>,
                 MacText(Expand(Slice(data, offset, offset + MAC_LENGTH))),
                 FALSE)

get_wifi_mac(data) == MacAt(data, WIFI_MAC_OFFSET, ReadWifiFailed)

get_lan_mac(data) == MacAt(data, LAN_MAC_OFFSET, ReadLanFailed)

\* load_nor_file: the path does not exist, the read raises IOError, or the
\* file's bytes become the image; an empty file raises after the image was
\* replaced by the empty bytearray.
MissingFile == [kind |-> "missing", bytes |-> <<>>]
UnreadableFile == [kind |-> "unreadable", bytes |-> <<>>]
FileWith(bytes) == [kind |-> "file", bytes |-> bytes]

load_nor_file(data, f) ==
  IF f.kind = "missing"
  THEN NorFailure(data, LoadUnexpected, <<FileNotFound>>)
  ELSE IF f.kind = "unreadable"
  THEN NorFailure(data, FileReadFailed, <<>>)
  ELSE IF f.bytes = <<>>
  THEN NorFailure(f.bytes, LoadUnexpected, <<FileEmpty>>)
  ELSE NorResult(f.bytes, NoError, <<>>, NoneText, TRUE)

\* if not self.nor_data: raise NorError("No NOR data to save")
SaveGuard_none_only(data) == data = NoData

SaveGuard(data) == NoImage(data)

\* save_nor_file: the image afterwards and what the call gives, and the
\* file at the path afterwards.  open(file_path, 'wb') empties the file
\* before the write; a write that raises leaves the first bytes of the
\* image in the file, as many as were written before the failure.
save_nor_file(data, f, outcome, written) ==
  IF SaveGuard(data)
  THEN [r |-> NorFailure(data, NoNorToSave, <<>>), file |-> f]
  ELSE CASE outcome = "ok" ->
              [r |-> NorResult(data, NoError, <<>>, NoneText, TRUE),
               file |-> FileWith(data)]
         [] outcome = "fail_before" ->
              [r |-> NorFailure(data, WriteNorFailed, <<>>), file |-> f]
         [] OTHER ->
              [r |-> NorFailure(data, WriteNorFailed, <<>>),
               file |-> FileWith(TakeBytes(data, written))]

---------------------------------------------------------------------------
(* The inputs the model draws from.                                        *)

Text_DEADBEEF == <<"D", "E", "A", "D", "B", "E", "E", "F">>
Text_deadbeef == <<"d", "e", "a", "d", "b", "e", "e", "f">>
Text_CAFEF00D == <<"C", "A", "F", "E", "F", "0", "0", "D">>
Text_DEADBEEG == <<"D", "E", "A", "D", "B", "E", "E", "G">>
Text_DEADBEE == <<"D", "E", "A", "D", "B", "E", "E">>
Text_badcode == <<"b", "a", "d", "c", "o", "d", "e">>
DescX == <<"X">>
DescY == <<"Y">>

\* The codes a caller asks get_error_description about.
Codes ==
  { Text_DEADBEEF, Text_deadbeef, Text_CAFEF00D, Text_DEADBEEG, Text_DEADBEE }

\* The texts a caller gives send_command.
Commands == { <<>>, <<"a">>, <<"a", "\n", "b">> }

\* Texts with a carriage return, and one without a line break.
FramingCommands == { <<>>, <<"a", "\r">>, <<"a", "\r", "b">>, <<"a", "b">> }

\* The texts a caller gives validate_error_code.
CodeTexts ==
  Codes \cup { <<>>, Text_DEADBEEF \o <<"\n">>, Text_DEADBEEF \o <<"\r">>,
               Text_DEADBEEF \o <<"0">>, Text_DEADBEE \o <<"\n">>,
               Text_deadbeef \o <<"\n">>, Text_DEADBEEF \o <<"\n", "\n">> }

\* The texts a caller gives handle_error_response.
Response3 ==
  ERROR_PREFIX \o Text_DEADBEEF \o <<",">> \o Text_badcode \o <<",", " ">>
    \o Text_CAFEF00D \o <<" ">>

ResponseTexts ==
  { <<>>,
    OK_TEXT,
    <<" ">> \o ERROR_PREFIX \o Text_DEADBEEF,
    <<"e", "r", "r", "o", "r", ":">> \o Text_DEADBEEF,
    ERROR_PREFIX,
    ERROR_PREFIX \o Text_deadbeef \o <<",", ",">> \o Text_DEADBEEG,
    Response3 }

\* The files load_nor_file is given: images too short for every field, for
\* some fields, and images that hold them all.
NorImages ==
  { <<>>,
    <<<<10, 49>>>>,
    <<<<LAN_MAC_OFFSET + 3, 49>>>>,
    <<<<OFFSET_ONE + 1, 49>>>>,
    <<<<SERIAL_OFFSET + SERIAL_LENGTH - 1, 65>>>>,
    <<<<WIFI_MAC_OFFSET + MAC_LENGTH, 255>>>>,
    <<<<OFFSET_ONE, 0>>, <<1, 49>>, <<OFFSET_TWO - OFFSET_ONE - 1, 0>>,
      <<1, 48>>, <<WIFI_MAC_OFFSET + MAC_LENGTH - OFFSET_TWO + 3, 0>>>> }

NorFiles == {MissingFile, UnreadableFile} \cup {FileWith(i) : i \in NorImages}

\* The files loaded before the image is saved.
ImageFiles ==
  { MissingFile, UnreadableFile, FileWith(<<>>), FileWith(<<<<10, 49>>>>),
    FileWith(<<<<3, 0>>, <<2, 255>>>>) }

\* The small images the fields given by offset and length are taken from.
FieldFiles ==
  { MissingFile, FileWith(<<>>), FileWith(<<<<10, 49>>>>),
    FileWith(<<<<20, 255>>>>) }

\* The serial numbers a caller gives set_serial_number.
Serial15 == <<"A", "B", "C", "D", "E", "F", "G", "H", "I", "J", "K", "L",
              "M", "N", "O">>
SerialValues ==
  { <<>>,
    Serial15,
    Serial15 \o <<"P">>,
    Serial15 \o <<"P", "Q">>,
    <<"<00>">> \o Serial15,
    SubSeq(Serial15, 1, 14) \o <<"<00>", "<00>">>,
    Serial15 \o <<"<e9>">> }

\* The fields a caller gives _read_string and _write_string.
FieldOffsets == {-1, 0, 9}
FieldLengths == {0, 2, 16}
FieldValues == { <<>>, <<"A">>, <<"A", "B", "C">>, <<"<e9>">> }

\* The mappings the dict holds when it is saved: valid codes, each with a
\* description string, the empty one and one with a carriage return
\* included.
CacheDescs == { <<>>, DescX, <<"a", "\r">> }
CacheMappings ==
  {<<>>}
    \cup { <<<<Text_DEADBEEF, d>>>> : d \in CacheDescs }
    \cup { <<<<Text_CAFEF00D, d>>, <<Text_DEADBEEF, e>>>> :
              d \in CacheDescs, e \in CacheDescs }

\* The texts calculate_checksum is given: the two commands of the program,
\* texts whose sum is below and above 256, and a text that is not ASCII.
ChecksumTexts ==
  { GET_ERROR_CODES, CLEAR_ERROR_CODES, <<>>, <<"a">>, <<"\t">>,
    <<"z", "z", "z">>, <<"<e9>">>, <<"a", "<e9>">> }

\* The lines the device answers with, as readline returns them.
DeviceLines ==
  { <<>>,
    OK_TEXT \o <<"\n">>,
    <<"N", "G", "\r", "\n">>,
    ERROR_PREFIX \o Text_DEADBEEF \o <<"\r", "\n">>,
    ERROR_PREFIX \o Text_badcode \o <<"\n">>,
    ERROR_PREFIX \o Text_DEADBEEF \o <<",">> \o Text_badcode \o <<",", " ">>
      \o Text_CAFEF00D \o <<"\n">> }

IoOutcomes ==
  {IoWriteError, IoReadError, IoUndecodable} \cup {IoLine(l) : l \in DeviceLines}

Entry(code, desc) == [code |-> code, desc |-> desc]

\* The documents the remote service answers with.
CatalogA == <<Entry(Text_DEADBEEF, DescX), Entry(Text_CAFEF00D, <<>>)>>
CatalogB ==
  <<Entry(Text_badcode, DescX), Entry(Text_deadbeef, DescY),
    Entry(Text_DEADBEEF, DescX)>>
CatalogC ==
  <<Entry(Text_CAFEF00D, <<>>), Entry(<<>>, DescX),
    Entry(Text_DEADBEEF, DescX)>>
CatalogD == <<Entry(Text_DEADBEEF, AbsentElement)>>
\* An ErrorCode element whose text ends with the line feed before its end tag.
CatalogE ==
  <<Entry(Text_DEADBEEF \o <<"\n">>, DescX), Entry(Text_CAFEF00D, DescY)>>

RemoteOutcomes ==
  { Transport,
    Http(404, XmlDoc(TRUE, ROOT_TAG, CatalogA)),
    Http(HTTP_OK, MalformedXml),
    Http(HTTP_OK, XmlDoc(TRUE, "html", CatalogA)),
    Http(HTTP_OK, XmlDoc(TRUE, ROOT_TAG, CatalogA)),
    Http(HTTP_OK, XmlDoc(TRUE, ROOT_TAG, CatalogB)),
    Http(HTTP_OK, XmlDoc(TRUE, ROOT_TAG, CatalogC)),
    Http(HTTP_OK, XmlDoc(TRUE, ROOT_TAG, CatalogD)) }

\* The payloads a full download is answered with.
PayloadOutcomes ==
  RemoteOutcomes \cup {Http(HTTP_OK, XmlDoc(TRUE, ROOT_TAG, CatalogE))}

\* The serial ports the system lists, and the names a caller gives connect.
ListedPorts == {"COM3"}
PortNames == {"COM3", "COM9", ""}
OpenOutcomes == {"ok", "serial_error", "other_error"}
CloseOutcomes == {"ok", "serial_error", "other_error"}

\* A save is reached only after a 200 answer that parses to the root tag:
\* elsewhere one outcome is drawn.
SavesFor(remote) ==
  IF remote.kind = "http" /\ remote.status = HTTP_OK
     /\ remote.xml.wellformed /\ remote.xml.root = ROOT_TAG
  THEN SaveOutcomes ELSE {"ok"}

\* What one lookup meets: the service's answer and the save's outcome.
LookupEnv(remotes) ==
  UNION {{[remote |-> r, save |-> sv] : sv \in SavesFor(r)} : r \in remotes}

\* A request is made only for a valid code.
LookupEnvFor(error_code) ==
  IF validate_error_code(error_code) THEN LookupEnv(RemoteOutcomes)
  ELSE LookupEnv({Transport})

\* The answers drawn for the lookups a device response causes.  They are
\* get_error_description's, whose every outcome GetErrorDescription draws.
LinkRemotes ==
  { Transport,
    Http(404, XmlDoc(TRUE, ROOT_TAG, CatalogA)),
    Http(HTTP_OK, XmlDoc(TRUE, ROOT_TAG, CatalogA)) }

\* The connection is used only by a command that passes send_command's
\* checks: for another one outcome is drawn.
IoFor(conn, command) ==
  IF SendGuard(conn, command) = NoError THEN IoOutcomes ELSE {IoWriteError}

\* One lookup environment per request a command can cause: a line with n
\* valid codes causes at most n lookups.
LookupCount(io) ==
  IF io.kind = "line" THEN Len(ParseCodeList(Strip(io.line))) ELSE 0

\* The save fails in one way here; SaveErrorCodes and GetErrorDescription
\* draw every way.
LinkLookups == {e \in LookupEnv(LinkRemotes) : e.save # "fail_partial"}

LookupSeqs(io) ==
  IF LookupCount(io) = 0 THEN {<<CHOOSE e \in LookupEnv({Transport}) : TRUE>>}
  ELSE [1..LookupCount(io) -> LinkLookups]

LookupSeqsFor(response) ==
  IF ParseCodeList(response) = <<>>
  THEN {<<CHOOSE e \in LookupEnv({Transport}) : TRUE>>}
  ELSE [1..Len(ParseCodeList(response)) -> LinkLookups]

\* Opening is reached only for a listed port, and the connection held
\* before is dropped only by an opening that succeeds.
OpensFor(port, tools) ==
  IF validate_port(port, ListedPorts, tools).flag THEN OpenOutcomes
  ELSE {"ok"}

CollectedFor(conn, port, tools, open) ==
  IF validate_port(port, ListedPorts, tools).flag /\ open = "ok" /\ conn # 0
  THEN BOOLEAN ELSE {FALSE}

ReleasedFor(conn, close) ==
  IF conn # 0 /\ close # "ok" THEN BOOLEAN ELSE {FALSE}

ClosesFor(conn) == IF conn # 0 THEN CloseOutcomes ELSE {"ok"}

---------------------------------------------------------------------------
(* The state: one UartHandler, the persisted file, the serial ports, and   *)
(* one NorHandler.                                                         *)

VARIABLES
  alive,           \* a UartHandler has been constructed and the process runs
  connection,      \* self.connection: 0 for None, else the connection's id
  openConns,       \* the connections opened by connect and not closed
  nextConn,        \* how many connections this run has opened
  error_codes_db,  \* self.error_codes_db
  file,            \* the document at self.db_path
  nor_data,        \* NorHandler's self.nor_data
  nor_file,        \* the file at the path save_nor_file is given
  serial_tools,    \* the process has loaded serial.tools.list_ports
  last             \* the last call: its arguments and what the caller saw

\* In the actions, \E r \in {call} binds r to the call's result.  last
\* also keeps what the environment did in the call: the remote service's
\* answer and the save's outcome of a lookup, the outcome of an open or a
\* close.
vars ==
  <<alive, connection, openConns, nextConn, error_codes_db, file, nor_data,
    nor_file, serial_tools, last>>

Call(op) ==
  [op |-> op, text |-> NoneText, port |-> "", raised |-> NoError,
   ret |-> NoneText, codes |-> <<>>, flag |-> FALSE, events |-> <<>>,
   requests |-> <<>>, response |-> NoneText, existed |-> FALSE,
   remote |-> Transport, save |-> "ok", outcome |-> "", cause |-> <<>>,
   args |-> <<>>]

\* Before the program is started on a fresh installation: no handler, no
\* persisted file.  uart_handler.py imports serial alone; whether the
\* submodule serial.tools.list_ports is loaded is up to the process that
\* hosts the handler, and no step of the handler changes it.
Init ==
  /\ alive = FALSE
  /\ connection = 0
  /\ openConns = {}
  /\ nextConn = 0
  /\ error_codes_db = EmptyDict
  /\ file = NoFile
  /\ nor_data = NoData
  /\ nor_file = MissingFile
  /\ serial_tools \in BOOLEAN
  /\ last = Call("none")

\* UartHandler(): connection None, an empty dict, initialize_error_database.
\* A constructor that raises leaves no handler.
StartupWith(remotes) ==
  /\ ~alive
  /\ \E env \in LookupEnv(remotes) :
       \E r \in {initialize_error_database(EmptyDict, file, env.remote,
                                            env.save)} :
       /\ alive' = (r.raised = NoError)
       /\ error_codes_db' = IF r.raised = NoError THEN r.db ELSE EmptyDict
       /\ file' = r.file
       /\ last' = [Call("startup") EXCEPT !.raised = r.raised,
                     !.flag = r.flag, !.requests = r.requests,
                     !.existed = file.exists]
  /\ connection' = 0
  /\ openConns' = {}
  /\ nextConn' = 0
  /\ nor_data' = NoData
  /\ UNCHANGED <<nor_file, serial_tools>>

Startup == StartupWith(RemoteOutcomes)

\* The process ends: the handler and its dict are gone, the system closes
\* the ports, the file stays.
Exit ==
  /\ alive
  /\ alive' = FALSE
  /\ connection' = 0
  /\ openConns' = {}
  /\ nextConn' = 0
  /\ error_codes_db' = EmptyDict
  /\ last' = Call("exit")
  /\ nor_data' = NoData
  /\ UNCHANGED <<file, nor_file, serial_tools>>

Connect ==
  /\ alive
  /\ nextConn < MaxConn
  /\ \E port \in PortNames :
     \E open \in OpensFor(port, serial_tools) :
     \E collected \in CollectedFor(connection, port, serial_tools, open) :
       \E r \in {connect(connection, openConns, nextConn, port, ListedPorts,
                        serial_tools, open, collected)} :
       /\ connection' = r.connection
       /\ openConns' = r.openConns
       /\ nextConn' = r.nextConn
       /\ last' = [Call("connect") EXCEPT !.port = port,
                     !.raised = r.raised, !.flag = r.flag,
                     !.outcome = open]
  /\ UNCHANGED <<serial_tools, alive, error_codes_db, file, nor_data, nor_file>>

Disconnect ==
  /\ alive
  /\ \E close \in ClosesFor(connection) :
     \E released \in ReleasedFor(connection, close) :
       \E r \in {disconnect(connection, openConns, nextConn, close, released)} :
       /\ connection' = r.connection
       /\ openConns' = r.openConns
       /\ last' = [Call("disconnect") EXCEPT !.raised = r.raised,
                     !.events = r.events, !.outcome = close]
  /\ UNCHANGED <<serial_tools, alive, nextConn, error_codes_db, file, nor_data, nor_file>>

\* The environment's part in one command: what the connection does, and
\* what each lookup and each save the response causes meets.
Sent(op, r, command) ==
  [Call(op) EXCEPT !.text = command, !.raised = r.raised, !.ret = r.ret,
     !.events = r.events, !.requests = r.requests, !.response = r.response]

SendWith(commands) ==
  /\ alive
  /\ \E command \in commands :
     \E io \in IoFor(connection, command) :
     \E lookups \in LookupSeqs(io) :
       \E r \in {send_command(connection, error_codes_db, file, command, io,
                               lookups)} :
       /\ error_codes_db' = r.db
       /\ file' = r.file
       /\ last' = Sent("send_command", r, command)
  /\ UNCHANGED <<serial_tools, alive, connection, openConns, nextConn, nor_data, nor_file>>

SendCommand == SendWith(Commands)

SendCustomCommand ==
  /\ alive
  /\ \E command \in Commands :
     \E io \in IoFor(connection, command) :
     \E lookups \in LookupSeqs(io) :
       \E r \in {send_custom_command(connection, error_codes_db, file,
                                      command, io, lookups)} :
       /\ error_codes_db' = r.db
       /\ file' = r.file
       /\ last' = Sent("send_custom_command", r, command)
  /\ UNCHANGED <<serial_tools, alive, connection, openConns, nextConn, nor_data, nor_file>>

\* handle_error_response called with a text, not through send_command.
HandleErrorResponse ==
  /\ alive
  /\ \E response \in ResponseTexts :
     \E lookups \in LookupSeqsFor(response) :
       \E r \in {handle_error_response(error_codes_db, file, response,
                                        lookups)} :
       /\ error_codes_db' = r.db
       /\ file' = r.file
       /\ last' = [Call("handle_error_response") EXCEPT !.text = response,
                     !.raised = r.raised, !.ret = r.ret,
                     !.requests = r.requests]
  /\ UNCHANGED <<serial_tools, alive, connection, openConns, nextConn, nor_data, nor_file>>

ValidateErrorCode ==
  /\ alive
  /\ \E error_code \in CodeTexts :
       last' = [Call("validate_error_code") EXCEPT !.text = error_code,
                  !.flag = validate_error_code(error_code)]
  /\ UNCHANGED <<serial_tools, alive, connection, openConns, nextConn, error_codes_db,
                 file, nor_data, nor_file>>

\* calculate_checksum called with a text, not through send_command.
CalculateChecksum ==
  /\ alive
  /\ \E data \in ChecksumTexts :
       last' = [Call("calculate_checksum") EXCEPT !.text = data,
                  !.ret = calculate_checksum(data)]
  /\ UNCHANGED <<serial_tools, alive, connection, openConns, nextConn, error_codes_db,
                 file, nor_data, nor_file>>

GetErrorCodes ==
  /\ alive
  /\ \E io \in IoFor(connection, GET_ERROR_CODES) :
     \E lookups \in LookupSeqs(io) :
       \E r \in {get_error_codes(connection, error_codes_db, file, io,
                                  lookups)} :
       /\ error_codes_db' = r.db
       /\ file' = r.file
       /\ last' = [Sent("get_error_codes", r, GET_ERROR_CODES)
                     EXCEPT !.codes = r.codes]
  /\ UNCHANGED <<serial_tools, alive, connection, openConns, nextConn, nor_data, nor_file>>

ClearErrorCodes ==
  /\ alive
  /\ \E io \in IoFor(connection, CLEAR_ERROR_CODES) :
     \E lookups \in LookupSeqs(io) :
       \E r \in {clear_error_codes(connection, error_codes_db, file, io,
                                    lookups)} :
       /\ error_codes_db' = r.db
       /\ file' = r.file
       /\ last' = [Sent("clear_error_codes", r, CLEAR_ERROR_CODES)
                     EXCEPT !.flag = r.flag]
  /\ UNCHANGED <<serial_tools, alive, connection, openConns, nextConn, nor_data, nor_file>>

GetErrorDescription ==
  /\ alive
  /\ \E error_code \in Codes :
     \E env \in LookupEnvFor(error_code) :
       \E r \in {get_error_description(error_codes_db, file, error_code,
                                        env.remote, env.save)} :
       /\ error_codes_db' = r.db
       /\ file' = r.file
       /\ last' = [Call("get_error_description") EXCEPT !.text = error_code,
                     !.raised = r.raised, !.ret = r.ret,
                     !.requests = r.requests, !.remote = env.remote,
                     !.save = env.save]
  /\ UNCHANGED <<serial_tools, alive, connection, openConns, nextConn, nor_data, nor_file>>

DownloadWith(remotes) ==
  /\ alive
  /\ \E env \in LookupEnv(remotes) :
       \E r \in {download_error_database(error_codes_db, file, env.remote,
                                          env.save)} :
       /\ error_codes_db' = r.db
       /\ file' = r.file
       /\ last' = [Call("download_error_database") EXCEPT
                     !.raised = r.raised, !.flag = r.flag,
                     !.requests = r.requests, !.remote = env.remote,
                     !.save = env.save]
  /\ UNCHANGED <<serial_tools, alive, connection, openConns, nextConn, nor_data, nor_file>>

DownloadErrorDatabase == DownloadWith(RemoteOutcomes)

SaveErrorCodes ==
  /\ alive
  /\ \E save \in SaveOutcomes :
       \E r \in {save_error_codes(error_codes_db, file, save)} :
       /\ file' = r.file
       /\ last' = [Call("save_error_codes") EXCEPT !.raised = r.raised]
  /\ UNCHANGED <<serial_tools, alive, connection, openConns, nextConn, error_codes_db, nor_data, nor_file>>

LoadErrorCodes ==
  /\ alive
  /\ \E r \in {load_error_codes(error_codes_db, file)} :
       /\ error_codes_db' = r.db
       /\ last' = [Call("load_error_codes") EXCEPT !.raised = r.raised,
                     !.existed = file.exists]
  /\ UNCHANGED <<serial_tools, alive, connection, openConns, nextConn, file, nor_data, nor_file>>

\* The NorHandler's methods.  None of them touches the UartHandler.
NorCall(op, r) ==
  [Call(op) EXCEPT !.raised = r.raised, !.cause = r.cause, !.ret = r.ret,
     !.flag = r.flag]

LoadWith(files) ==
  /\ \E f \in files :
       \E r \in {load_nor_file(nor_data, f)} :
       /\ nor_data' = r.data
       /\ last' = [NorCall("load_nor_file", r) EXCEPT !.outcome = f.kind,
                     !.args = <<f.bytes>>]
  /\ UNCHANGED <<serial_tools, alive, connection, openConns, nextConn, error_codes_db,
                 file, nor_file>>

LoadNorFile == LoadWith(NorFiles)

LoadFieldFile == LoadWith(FieldFiles)

LoadImageFile == LoadWith(ImageFiles)

\* The numbers of bytes a failing write can have written: any prefix of
\* the image, up to MaxWritten bytes here.
WrittenFor(data, outcome) ==
  IF outcome = "fail_partial" /\ ~SaveGuard(data)
  THEN {k \in 0..MaxWritten : k <= ImageLen(data)}
  ELSE {0}

SaveNorFile ==
  /\ \E outcome \in SaveOutcomes :
     \E written \in WrittenFor(nor_data, outcome) :
       \E s \in {save_nor_file(nor_data, nor_file, outcome, written)} :
       /\ nor_data' = s.r.data
       /\ nor_file' = s.file
       /\ last' = [NorCall("save_nor_file", s.r) EXCEPT !.outcome = outcome]
  /\ UNCHANGED <<serial_tools, alive, connection, openConns, nextConn, error_codes_db,
                 file>>

\* A method that takes no argument.
NorGet(op, r) ==
  /\ nor_data' = r.data
  /\ last' = NorCall(op, r)
  /\ UNCHANGED <<serial_tools, alive, connection, openConns, nextConn, error_codes_db,
                 file, nor_file>>

GetSerialNumber == NorGet("get_serial_number", get_serial_number(nor_data))

GetVersion == NorGet("get_version", get_version(nor_data))

GetMotherboardSerial ==
  NorGet("get_motherboard_serial", get_motherboard_serial(nor_data))

GetWifiMac == NorGet("get_wifi_mac", get_wifi_mac(nor_data))

GetLanMac == NorGet("get_lan_mac", get_lan_mac(nor_data))

SetSerialNumber ==
  /\ \E new_serial \in SerialValues :
       \E r \in {set_serial_number(nor_data, new_serial)} :
       /\ nor_data' = r.data
       /\ last' = [NorCall("set_serial_number", r) EXCEPT
                     !.text = new_serial]
  /\ UNCHANGED <<serial_tools, alive, connection, openConns, nextConn, error_codes_db,
                 file, nor_file>>

SetVersion ==
  /\ \E is_disc_edition \in BOOLEAN :
       \E r \in {set_version(nor_data, is_disc_edition)} :
       /\ nor_data' = r.data
       /\ last' = [NorCall("set_version", r) EXCEPT
                     !.args = <<is_disc_edition>>]
  /\ UNCHANGED <<serial_tools, alive, connection, openConns, nextConn, error_codes_db,
                 file, nor_file>>

ReadString ==
  /\ \E offset \in FieldOffsets, length \in FieldLengths :
       \E r \in {_read_string(nor_data, offset, length)} :
       /\ nor_data' = r.data
       /\ last' = [NorCall("_read_string", r) EXCEPT
                     !.args = <<offset, length>>]
  /\ UNCHANGED <<serial_tools, alive, connection, openConns, nextConn, error_codes_db,
                 file, nor_file>>

WriteString ==
  /\ \E offset \in FieldOffsets, length \in FieldLengths,
        value \in FieldValues :
       \E r \in {_write_string(nor_data, offset, value, length)} :
       /\ nor_data' = r.data
       /\ last' = [NorCall("_write_string", r) EXCEPT !.text = value,
                     !.args = <<offset, length>>]
  /\ UNCHANGED <<serial_tools, alive, connection, openConns, nextConn, error_codes_db,
                 file, nor_file>>

\* The error-code cache: the operations that read and write the dict and
\* the file.  None of them reads or writes connection, openConns, nextConn.
Next ==
  \/ Startup
  \/ Exit
  \/ GetErrorDescription
  \/ DownloadErrorDatabase
  \/ SaveErrorCodes
  \/ LoadErrorCodes

Spec == Init /\ [][Next]_vars

\* The serial link: one run of the program, and the operations that use
\* the connection.  The commands reach the cache through
\* handle_error_response's lookups.
StartupLink == StartupWith(LinkRemotes)

NextLink ==
  \/ StartupLink
  \/ Connect
  \/ Disconnect
  \/ SendCommand
  \/ SendCustomCommand

SpecLink == Init /\ [][NextLink]_vars

\* The session's use of the device's error-code commands.
NextCodes ==
  \/ StartupLink
  \/ Connect
  \/ Disconnect
  \/ GetErrorCodes
  \/ ClearErrorCodes

SpecCodes == Init /\ [][NextCodes]_vars

\* The full download, over every payload, between runs of the program.
DownloadPayload == DownloadWith(PayloadOutcomes)

NextDownload ==
  \/ StartupLink
  \/ Exit
  \/ DownloadPayload
  \/ LoadErrorCodes

SpecDownload == Init /\ [][NextDownload]_vars

\* The NOR image and its named fields.
NextNor ==
  \/ LoadNorFile
  \/ GetSerialNumber
  \/ SetSerialNumber
  \/ GetVersion
  \/ SetVersion
  \/ GetMotherboardSerial
  \/ GetWifiMac
  \/ GetLanMac

SpecNor == Init /\ [][NextNor]_vars

\* The NOR image loaded, read and saved.
NextImage ==
  \/ LoadImageFile
  \/ SaveNorFile
  \/ ReadString

SpecImage == Init /\ [][NextImage]_vars

\* The NOR image and the fields given by offset and length.
NextField ==
  \/ LoadFieldFile
  \/ ReadString
  \/ WriteString
  \/ SetSerialNumber

SpecField == Init /\ [][NextField]_vars

\* The dict written to the document and read back: a handler whose dict
\* holds one of the mappings, and the handlers started after it.
InitPersist ==
  /\ alive = TRUE
  /\ connection = 0
  /\ openConns = {}
  /\ nextConn = 0
  /\ error_codes_db \in CacheMappings
  /\ file = NoFile
  /\ nor_data = NoData
  /\ nor_file = MissingFile
  /\ serial_tools \in BOOLEAN
  /\ last = Call("none")

NextPersist ==
  \/ SaveErrorCodes
  \/ LoadErrorCodes
  \/ Exit
  \/ StartupLink

SpecPersist == InitPersist /\ [][NextPersist]_vars

\* The text operations, called by themselves.
NextText ==
  \/ StartupLink
  \/ ValidateErrorCode
  \/ HandleErrorResponse
  \/ CalculateChecksum

SpecText == Init /\ [][NextText]_vars

\* The framing of the commands sent on a Connected link.
SendFramed == SendWith(FramingCommands)

NextFraming ==
  \/ StartupLink
  \/ Connect
  \/ SendFramed

SpecFraming == Init /\ [][NextFraming]_vars

---------------------------------------------------------------------------
(* The properties of the serial link.                                      *)

\* C1: after any sequence of connect, disconnect and send_command calls on
\* one handler, at most one serial connection opened by it is open (opened
\* by connect and not yet closed), a connect issued while the handler is
\* Connected included.
C1_AtMostOneOpen == Cardinality(openConns) <= 1

\* C2: get_error_codes on a Connected link sends "get_error_codes" and,
\* when it returns, returns the codes of the device's raw response line
\* that pass validation, in their order: the list parsed from a raw
\* response that starts with "ERROR:", the empty list for another one.
C2_CodesOfRawResponse ==
  (last.op = "get_error_codes" /\ last.raised = NoError)
    => /\ last.text = GET_ERROR_CODES
       /\ last.codes = ParseCodeList(last.response)

\* C5: send_command called while the link is Disconnected fails with
\* NotConnected for every text (the empty text and a text with a line break
\* included), makes no write or read on any serial connection, and leaves
\* the link Disconnected.
C5_SendWhileDisconnected ==
  [][(last'.op = "send_command" /\ connection = 0)
       => /\ last'.raised = NotConnected
          /\ last'.events = <<>>
          /\ connection' = 0
          /\ openConns' = openConns]_vars

\* C5 happens: a text with a line break was sent on a Disconnected link.
C5_Witness ==
  /\ last.op = "send_command"
  /\ last.text = <<"a", "\n", "b">>
  /\ last.raised = NotConnected
  /\ connection = 0

\* C6: disconnect always leaves the link Disconnected: from Connected it
\* calls close and ends Disconnected whether close succeeds or raises, and a
\* close that raised is reported to the caller; from Disconnected it does
\* nothing and raises nothing.
C6_DisconnectEndsDisconnected ==
  [][last'.op = "disconnect"
       => /\ connection' = 0
          /\ connection # 0
               => /\ last'.events = <<CloseEvent(connection)>>
                  /\ (last'.outcome = "ok") = (last'.raised = NoError)
          /\ connection = 0
               => /\ last'.raised = NoError
                  /\ last'.events = <<>>
                  /\ openConns' = openConns]_vars

\* C6 happens: the close of a Connected link raised, and the link is
\* Disconnected.
C6_Witness ==
  /\ last.op = "disconnect"
  /\ last.outcome = "serial_error"
  /\ last.raised = DisconnectFailure
  /\ last.events # <<>>
  /\ connection = 0

\* C7: when send_command on a Connected link fails because the write or the
\* read on the serial connection raises an I/O error, the link is
\* Disconnected afterwards.
C7_IoFailureDisconnects ==
  (last.op = "send_command" /\ last.raised = SendFailed) => connection = 0

---------------------------------------------------------------------------
(* The properties of the error-code cache.                                 *)

\* The codes and the pairs a persisted document holds.
PersistedPairs(f) ==
  IF f.exists /\ f.xml.wellformed /\ f.xml.root = ROOT_TAG
  THEN {<<ElementText(f.xml.entries[i].code),
          ElementText(f.xml.entries[i].desc)>> :
          i \in {j \in 1..Len(f.xml.entries) : HasBoth(f.xml.entries[j])}}
  ELSE {}

PersistedCodes(f) == {pair[1] : pair \in PersistedPairs(f)}

CachedPairs(db) == {db[i] : i \in 1..Len(db)}

\* C3: at startup, if the persisted file exists its entries are loaded into
\* the in-memory cache as they are and no remote request is made, so that
\* every persisted (code, description) pair is in the cache after startup;
\* if it does not exist, download_error_database is triggered.
C3_StartupLoadsFile ==
  (last.op = "startup" /\ last.raised = NoError)
    => /\ last.existed
            => /\ last.requests = <<>>
               /\ PersistedPairs(file) \subseteq CachedPairs(error_codes_db)
       /\ ~last.existed => last.requests = <<RequestAll>>

\* C4: with no download_error_database, a code present in the persisted
\* document is never removed: after a startup that found the file, a lookup
\* or a save that rewrites the document leaves in it every code it held.
C4_NoCodeRemoved ==
  [][(/\ last.op = "startup"
      /\ last.existed
      /\ last.raised = NoError
      /\ last'.op \in {"get_error_description", "save_error_codes"}
      /\ last'.raised = NoError)
       => PersistedCodes(file) \subseteq PersistedCodes(file')]_vars

\* The lookup of one code by get_error_description, and what the remote
\* service answered it.
LookupStep == last'.op = "get_error_description"

Uncached ==
  validate_error_code(last'.text) /\ ~HasKey(error_codes_db, last'.text)

RemoteFailed(remote) ==
  \/ remote.kind = "transport"
  \/ remote.kind = "http" /\ remote.status = HTTP_OK /\ ~remote.xml.wellformed

RemoteMatches(remote, error_code) ==
  /\ remote.kind = "http"
  /\ remote.status = HTTP_OK
  /\ remote.xml.wellformed
  /\ remote.xml.root = ROOT_TAG
  /\ \E i \in 1..Len(remote.xml.entries) :
       /\ HasBoth(remote.xml.entries[i])
       /\ ElementText(remote.xml.entries[i].code) = error_code

RemoteDescription(remote, error_code) ==
  ElementText(
    remote.xml.entries[MatchIndex(remote.xml.entries, error_code)].desc)

\* C8: get_error_description for a valid code that is in the cache returns
\* the cached description, makes no remote request, and leaves the
\* in-memory cache and the persisted document unchanged.
C8_CachedLookup ==
  [][(/\ LookupStep
      /\ validate_error_code(last'.text)
      /\ HasKey(error_codes_db, last'.text))
       => /\ last'.raised = NoError
          /\ last'.ret = Lookup(error_codes_db, last'.text)
          /\ last'.requests = <<>>
          /\ error_codes_db' = error_codes_db
          /\ file' = file]_vars

\* C8 happens: a cached code was looked up while the remote service had
\* another description for it.
C8_Witness ==
  /\ last.op = "get_error_description"
  /\ last.text = Text_deadbeef
  /\ HasKey(error_codes_db, Text_deadbeef)
  /\ last.ret = DescY
  /\ last.requests = <<>>
  /\ last.remote.kind = "http"
  /\ last.remote.status = HTTP_OK
  /\ ~RemoteMatches(last.remote, Text_deadbeef)

\* What a lookup that found a match does: the pair is in the cache, the
\* other pairs are as before, the document is the whole cache, the
\* description is returned.
Inserted ==
  /\ last'.raised = NoError
  /\ last'.ret = RemoteDescription(last'.remote, last'.text)
  /\ last'.requests = <<RequestOne(last'.text)>>
  /\ CachedPairs(error_codes_db') =
       CachedPairs(error_codes_db) \cup {<<last'.text, last'.ret>>}
  /\ Len(error_codes_db') = Len(error_codes_db) + 1
  /\ file' = FileOf(TRUE, DocumentOf(error_codes_db'))

\* The lookup that follows one that inserted its code, for the same code.
RepeatedLookup ==
  /\ last.op = "get_error_description"
  /\ last.raised = NoError
  /\ last.requests # <<>>
  /\ HasKey(error_codes_db, last.text)
  /\ LookupStep
  /\ last'.text = last.text

SameAnswer ==
  /\ last'.raised = NoError
  /\ last'.ret = last.ret
  /\ last'.requests = <<>>

\* C9: get_error_description for a valid code absent from the
\* cache, when the remote service returns a matching entry, inserts the
\* pair, rewrites the persisted document to the whole cache and returns the
\* description; the lookup of the same code that follows returns the same
\* description without a remote request.
C9_InsertOnMatch ==
  [][/\ (LookupStep /\ Uncached /\ RemoteMatches(last'.remote, last'.text))
          => Inserted
     /\ RepeatedLookup => SameAnswer]_vars

\* C10: for a valid code not in the cache, a status other than 200 or a body
\* with no matching code makes get_error_description return "Unknown error"
\* with the cache unchanged and nothing raised; a transport failure or a
\* body that does not parse is raised and is never returned as
\* "Unknown error".
C10_NoMatchIsNotFailure ==
  [][(LookupStep /\ Uncached)
       => /\ RemoteFailed(last'.remote)
               => /\ last'.raised \in {FetchFailed, ParseFailed}
                  /\ last'.ret # UNKNOWN_ERROR
          /\ (~RemoteFailed(last'.remote)
              /\ ~RemoteMatches(last'.remote, last'.text))
               => /\ last'.raised = NoError
                  /\ last'.ret = UNKNOWN_ERROR
                  /\ error_codes_db' = error_codes_db
                  /\ file' = file]_vars

\* C10 happens: a 200 answer without the code gave "Unknown error" while the
\* cache held other codes.
C10_Witness ==
  /\ last.op = "get_error_description"
  /\ last.raised = NoError
  /\ last.ret = UNKNOWN_ERROR
  /\ last.remote.kind = "http"
  /\ last.remote.status = HTTP_OK
  /\ last.remote.xml.wellformed
  /\ last.requests # <<>>
  /\ error_codes_db # EmptyDict

\* A code as the specification defines it: exactly eight characters, each
\* a hexadecimal digit in either case.
IsHexCode(code) ==
  /\ code # NoneText
  /\ Len(code) = 8
  /\ \A i \in 1..Len(code) : UpperChar(code[i]) \in HexUpper

\* The pairs of a payload's entries (the errorCode elements with both
\* children) whose code is valid.
ValidPayloadPairs(remote) ==
  {<<ElementText(remote.xml.entries[i].code),
     ElementText(remote.xml.entries[i].desc)>> :
     i \in {j \in 1..Len(remote.xml.entries) :
              /\ HasBoth(remote.xml.entries[j])
              /\ IsHexCode(ElementText(remote.xml.entries[j].code))}}

\* C11: after a successful download_error_database the in-memory cache and
\* the persisted document hold exactly the payload's entries whose code is
\* valid: a code cached before and absent from the payload is gone, and no
\* payload entry with an invalid code is stored.
C11_DownloadReplaces ==
  [][(/\ last'.op = "download_error_database"
      /\ last'.raised = NoError
      /\ last'.flag)
       => /\ CachedPairs(error_codes_db') = ValidPayloadPairs(last'.remote)
          /\ PersistedPairs(file') = ValidPayloadPairs(last'.remote)]_vars

\* C12: in every reachable state every key of the cache is an 8-character
\* uppercase hexadecimal string.
C12_KeysUppercaseHex ==
  \A k \in Keys(error_codes_db) :
    /\ Len(k) = 8
    /\ \A i \in 1..Len(k) : k[i] \in HexUpper

---------------------------------------------------------------------------
(* The properties of the text operations.                                  *)

\* The trimmed pieces of a response's code list that are valid codes.
RECURSIVE TrimmedValid(_)
TrimmedValid(pieces) ==
  IF pieces = <<>> THEN <<>>
  ELSE (IF IsHexCode(Strip(Head(pieces))) THEN <<Strip(Head(pieces))>>
        ELSE <<>>) \o TrimmedValid(Tail(pieces))

\* The block of one code, with the description the cache has for it after
\* the call ("Unknown error" when the lookup found none).
BlockOf(db, code) ==
  <<"E", "r", "r", "o", "r", " ", "c", "o", "d", "e", ":", " ">> \o code
    \o <<"\n", "D", "e", "s", "c", "r", "i", "p", "t", "i", "o", "n", ":",
         " ">>
    \o (IF HasKey(db, code) THEN StrOf(Lookup(db, code)) ELSE UNKNOWN_ERROR)

RECURSIVE BlocksOf(_, _)
BlocksOf(db, codes) ==
  IF codes = <<>> THEN <<>>
  ELSE IF Len(codes) = 1 THEN BlockOf(db, codes[1])
  ELSE BlockOf(db, codes[1]) \o <<"\n", "\n">> \o BlocksOf(db, Tail(codes))

\* C13: handle_error_response returns its input unchanged when the input
\* does not start with "ERROR:"; when it does, what it returns is the blocks
\* "Error code: <code>" / "Description: <description>" of exactly the
\* trimmed comma-separated codes that are valid, in their order, joined by
\* one blank line; the codes that are not valid are dropped without error.
C13_HandleErrorResponse ==
  [][last'.op = "handle_error_response"
       => /\ ~StartsWith(last'.text, ERROR_PREFIX)
               => /\ last'.raised = NoError
                  /\ last'.ret = last'.text
                  /\ last'.requests = <<>>
                  /\ error_codes_db' = error_codes_db
          /\ (StartsWith(last'.text, ERROR_PREFIX) /\ last'.raised = NoError)
               => last'.ret =
                    BlocksOf(error_codes_db',
                             TrimmedValid(Split(SubSeq(last'.text, 7,
                                                       Len(last'.text)),
                                                ",")))
          /\ (StartsWith(last'.text, ERROR_PREFIX)
              /\ TrimmedValid(Split(SubSeq(last'.text, 7, Len(last'.text)),
                                    ",")) = <<>>)
               => last'.raised = NoError /\ last'.ret = <<>>]_vars

\* C13 happens: the response with DEADBEEF, badcode and CAFEF00D gave two
\* blocks.
C13_Witness ==
  /\ last.op = "handle_error_response"
  /\ last.text = Response3
  /\ last.raised = NoError
  /\ Len(last.requests) = 2
  /\ last.ret = ERROR_CODE_LABEL \o Text_DEADBEEF \o DESCRIPTION_LABEL \o DescX
                  \o BLOCK_SEPARATOR \o ERROR_CODE_LABEL \o Text_CAFEF00D
                  \o DESCRIPTION_LABEL \o UNKNOWN_ERROR

\* C14: validate_error_code accepts a string if and only if it is exactly 8
\* characters long and each is a hexadecimal digit in either case; a string
\* of another length (8 hexadecimal digits followed by a line break
\* included) or with another character is rejected.
C14_ValidateErrorCode ==
  last.op = "validate_error_code" => (last.flag <=> IsHexCode(last.text))

\* C20: send_command on a Connected link fails with InvalidCommand, and
\* writes nothing, when the text is empty or contains a line feed or a
\* carriage return; for another text it writes exactly the framed message
\* followed by one line feed.
C20_CommandFraming ==
  (last.op = "send_command" /\ connection # 0)
    => IF \/ last.text = <<>>
          \/ \E i \in 1..Len(last.text) : last.text[i] \in {"\n", "\r"}
       THEN last.raised = InvalidCommand /\ last.events = <<>>
       ELSE /\ last.events # <<>>
            /\ last.events[1] =
                 WriteEvent(connection,
                            calculate_checksum(last.text) \o <<"\n">>)
            /\ \A i \in 2..Len(last.events) : last.events[i].ev # "write"

(***************************************************************************)
(* Properties of the NOR image and its fields (SpecNor, SpecField).        *)
(***************************************************************************)

\* The end of the field each accessor reads or writes.
FieldEnd ==
  [get_serial_number |-> SERIAL_OFFSET + SERIAL_LENGTH,
   set_serial_number |-> SERIAL_OFFSET + SERIAL_LENGTH,
   get_motherboard_serial |-> MOBO_SERIAL_OFFSET + SERIAL_LENGTH,
   get_version |-> OFFSET_TWO + 1,
   set_version |-> OFFSET_TWO + 1,
   get_wifi_mac |-> WIFI_MAC_OFFSET + MAC_LENGTH,
   get_lan_mac |-> LAN_MAC_OFFSET + MAC_LENGTH]

\* C15: an accessor (serial number, motherboard serial, edition flags, WiFi
\* MAC, LAN MAC) whose field ends beyond the loaded image fails with the
\* invalid-offset error; none returns a value cut short by the end of the
\* image.
C15_OutOfBoundsRejected ==
  (/\ last.op \in DOMAIN FieldEnd
   /\ ~NoImage(nor_data)
   /\ FieldEnd[last.op] > ImageLen(nor_data)
   /\ last.op = "set_serial_number" => SerialLengthOk(last.text))
    => /\ last.raised # NoError
       /\ last.cause # <<>>
       /\ last.cause[Len(last.cause)] = InvalidOffset

\* A text without its trailing NUL characters.
TrailingStripped(s) ==
  LET kept == {i \in 1..Len(s) : s[i] # "<00>"} IN
  IF kept = {} THEN <<>>
  ELSE SubSeq(s, 1, CHOOSE i \in kept : \A j \in kept : i >= j)

\* C16: get_serial_number right after a successful set_serial_number(s)
\* returns s with only its trailing NUL characters removed, also when s
\* begins with NUL.
C16_ReadBackStripsTrailingOnly ==
  [][(/\ last.op = "set_serial_number"
      /\ last.raised = NoError
      /\ last'.op = "get_serial_number")
       => /\ last'.raised = NoError
          /\ last'.ret = TrailingStripped(last.text)]_vars

\* C17: get_version never raises: it gives Disc Edition when both flags
\* read "1", Digital Edition when both read "0", and Unknown otherwise,
\* also when no image is loaded or the image is too short for the flags.
C17_EditionNeverRaises ==
  last.op = "get_version"
    => /\ last.raised = NoError
       /\ last.ret \in {DISC_EDITION, DIGITAL_EDITION, UNKNOWN_EDITION}
       /\ (NoImage(nor_data) \/ ImageLen(nor_data) < OFFSET_TWO + 1)
            => last.ret = UNKNOWN_EDITION

\* C18: on an image that holds the serial field, set_serial_number fails
\* with the invalid-length error and leaves the image alone when the value
\* is not 16 characters long, and succeeds for a 16-character ASCII value,
\* after which the 16 bytes of the field are the value's ASCII encoding.
C18_SetSerialNumber ==
  [][(/\ last'.op = "set_serial_number"
      /\ ~NoImage(nor_data)
      /\ SERIAL_OFFSET + SERIAL_LENGTH <= ImageLen(nor_data))
       => /\ Len(last'.text) # SERIAL_LENGTH
               => /\ last'.raised = SetSerialFailed
                  /\ last'.cause = <<InvalidSerialLength>>
                  /\ nor_data' = nor_data
          /\ (Len(last'.text) = SERIAL_LENGTH /\ IsAsciiText(last'.text))
               => /\ last'.raised = NoError
                  /\ last'.flag
                  /\ Expand(Slice(nor_data', SERIAL_OFFSET,
                                  SERIAL_OFFSET + SERIAL_LENGTH))
                       = EncodeAscii(last'.text)]_vars

\* C18 happens: a 16-character serial number was written into an image that
\* holds the field.
C18_Witness ==
  /\ last.op = "set_serial_number"
  /\ last.raised = NoError
  /\ Len(last.text) = SERIAL_LENGTH
  /\ SERIAL_OFFSET + SERIAL_LENGTH <= ImageLen(nor_data)
  /\ Expand(Slice(nor_data, SERIAL_OFFSET, SERIAL_OFFSET + SERIAL_LENGTH))
       = EncodeAscii(last.text)

\* C19: a successful _write_string(offset, value, length) changes no byte
\* outside offset..offset+length-1 and keeps the image's length; afterwards
\* the range holds the value's bytes followed by NUL bytes.
C19_WriteStaysInField ==
  [][(last'.op = "_write_string" /\ last'.raised = NoError)
       => LET offset == last'.args[1]
              length == last'.args[2]
              n == ImageLen(nor_data)
          IN /\ ImageLen(nor_data') = n
             /\ Slice(nor_data', 0, offset) = Slice(nor_data, 0, offset)
             /\ Slice(nor_data', offset + length, n)
                  = Slice(nor_data, offset + length, n)
             /\ Expand(Slice(nor_data', offset, offset + length))
                  = EncodeAscii(last'.text)
                      \o [i \in 1..(length - Len(last'.text)) |-> 0]]_vars

\* C19 happens: a value shorter than its field was written inside the
\* image, with bytes before and after the field.
C19_Witness ==
  /\ last.op = "_write_string"
  /\ last.raised = NoError
  /\ last.text # <<>>
  /\ Len(last.text) < last.args[2]
  /\ last.args[1] > 0
  /\ last.args[1] + last.args[2] < ImageLen(nor_data)

(***************************************************************************)
(* Properties of the framing, of clear_error_codes and of the failures     *)
(* (SpecText, SpecCodes, SpecNor, SpecField).                              *)
(***************************************************************************)

\* str.encode() as send_command applies it to the framed message: the
\* UTF-8 bytes of a character below U+0800.
Utf8Bytes(c) ==
  IF Ord(c) < 128 THEN <<Ord(c)>>
  ELSE <<192 + (Ord(c) \div 64), 128 + (Ord(c) % 64)>>

RECURSIVE ByteSum(_)
ByteSum(text) ==
  IF text = <<>> THEN 0
  ELSE Utf8Bytes(Head(text))[1]
         + (IF Len(Utf8Bytes(Head(text))) = 2 THEN Utf8Bytes(Head(text))[2]
            ELSE 0)
         + ByteSum(Tail(text))

\* C21: the framed message of a command text C is C, a colon, and the two
\* uppercase hexadecimal digits of the sum of the byte values of C modulo
\* 256; for "get_error_codes" it is "get_error_codes:36".
C21_ChecksumFraming ==
  last.op = "calculate_checksum"
    => /\ last.ret = last.text \o <<":">> \o Hex02X(ByteSum(last.text) % 256)
       /\ last.text = GET_ERROR_CODES
            => last.ret = GET_ERROR_CODES \o <<":", "3", "6">>

\* C22: clear_error_codes fails with the not-connected error and sends
\* nothing when Disconnected; when Connected it sends "clear_error_codes"
\* and, for every response received, returns true if the response text is
\* "OK" and false otherwise, a response starting with "ERROR:" included.
C22_ClearErrorCodes ==
  [][last'.op = "clear_error_codes"
       => IF connection = 0
          THEN last'.raised = NotConnected /\ last'.events = <<>>
          ELSE /\ last'.events # <<>>
               /\ last'.events[1]
                    = WriteEvent(connection,
                                 calculate_checksum(CLEAR_ERROR_CODES)
                                   \o <<"\n">>)
               /\ last'.response # NoneText
                    => /\ last'.raised = NoError
                       /\ last'.flag <=> last'.response = OK_TEXT]_vars

\* C24: the document saved from a mapping of valid codes to description
\* strings, loaded into an empty dict, gives that mapping again, and
\* loading it once more leaves the dict as it is.
C24_CacheRoundTrip ==
  [][last'.op = "load_error_codes"
       => \A m \in CacheMappings :
            (/\ file = FileOf(TRUE, DocumentOf(m))
             /\ error_codes_db \in {EmptyDict, m})
              => /\ last'.raised = NoError
                 /\ error_codes_db' = m]_vars

\* C26: a get_error_description call that raises (the request fails, the
\* response does not parse, or the save fails) leaves the dict the mapping
\* it was before the call.
C26_LookupFailureKeepsCache ==
  [][(last'.op = "get_error_description" /\ last'.raised # NoError)
       => error_codes_db' = error_codes_db]_vars

\* C27: a download_error_database call that does not succeed (it returns
\* false, or raises on the request, the parsing or the save) leaves the
\* dict the mapping it was before the call.
C27_DownloadFailureKeepsCache ==
  [][(/\ last'.op = "download_error_database"
      /\ last'.raised # NoError \/ ~last'.flag)
       => error_codes_db' = error_codes_db]_vars

\* C23: save_nor_file never changes the image held.  With no image or an
\* empty image held it fails with the no-data error and leaves the file as
\* it was; otherwise a save that succeeds leaves in the file exactly the
\* bytes held, so a save right after a successful load writes the bytes
\* loaded.
C23_SaveNorFile ==
  [][last'.op = "save_nor_file"
       => /\ nor_data' = nor_data
          /\ IF NoImage(nor_data)
             THEN last'.raised = NoNorToSave /\ nor_file' = nor_file
             ELSE /\ last'.outcome = "ok" => last'.raised = NoError
                  /\ last'.raised = NoError
                       => /\ last'.flag
                          /\ nor_file' = FileWith(nor_data)
                  /\ (/\ last.op = "load_nor_file"
                      /\ last.raised = NoError
                      /\ last'.raised = NoError)
                       => nor_file' = FileWith(last.args[1])]_vars

\* C23 happens: an image was held and the save wrote its bytes.
C23_Witness ==
  /\ last.op = "save_nor_file"
  /\ last.raised = NoError
  /\ ~NoImage(nor_data)
  /\ nor_file = FileWith(nor_data)

\* C28: a load_nor_file call that raises (no such path, a read error, an
\* empty file) while an image is held leaves that image in place.
C28_FailedLoadKeepsImage ==
  [][(/\ last'.op = "load_nor_file"
      /\ last'.raised # NoError
      /\ ~NoImage(nor_data))
       => nor_data' = nor_data]_vars

\* C25: set_version on a loaded image either leaves both edition flags
\* holding the requested value, or raises and leaves the image as it was
\* before the call.
C25_SetVersionAllOrNothing ==
  [][(last'.op = "set_version" /\ ~NoImage(nor_data))
       => LET value == IF last'.args[1] THEN <<Ord("1")>> ELSE <<Ord("0")>>
          IN \/ /\ last'.raised = NoError
                /\ Expand(Slice(nor_data', OFFSET_ONE, OFFSET_ONE + 1))
                     = value
                /\ Expand(Slice(nor_data', OFFSET_TWO, OFFSET_TWO + 1))
                     = value
             \/ /\ last'.raised # NoError
                /\ nor_data' = nor_data]_vars

\* C29: a _write_string or set_serial_number call that raises (no image,
\* out of bounds, a character that is not ASCII, a value too long, a wrong
\* length) leaves the image byte for byte as it was.
C29_FailedWriteKeepsImage ==
  [][(/\ last'.op \in {"_write_string", "set_serial_number"}
      /\ last'.raised # NoError)
       => nor_data' = nor_data]_vars

\* C29 happens: with an image held, a write was refused for a value longer
\* than its field.
C29_Witness ==
  /\ last.op = "_write_string"
  /\ last.raised = WriteUnexpected
  /\ last.cause = <<StringTooLong>>
  /\ ~NoImage(nor_data)

\* What a getter answers: the error it raises and the value it returns.
Answer(r) == <<r.raised, r.cause, r.ret>>

\* C30: the fields do not overlap.  A successful set_serial_number changes
\* no byte of the motherboard serial, of the two edition flags, of the
\* bytes from the variant offset on, or of the WiFi and LAN MAC fields; a
\* successful set_version changes no byte of the serial, motherboard serial
\* or MAC fields; the other getters answer after the call as before it.
C30_FieldsDisjoint ==
  [][/\ (last'.op = "set_serial_number" /\ last'.raised = NoError)
          => /\ \A f \in { <<MOBO_SERIAL_OFFSET, SERIAL_LENGTH>>,
                           <<OFFSET_ONE, 1>>, <<OFFSET_TWO, 1>>,
                           <<VARIANT_OFFSET, ImageLen(nor_data)>>,
                           <<WIFI_MAC_OFFSET, MAC_LENGTH>>,
                           <<LAN_MAC_OFFSET, MAC_LENGTH>> } :
                  Slice(nor_data', f[1], f[1] + f[2])
                    = Slice(nor_data, f[1], f[1] + f[2])
             /\ Answer(get_motherboard_serial(nor_data'))
                  = Answer(get_motherboard_serial(nor_data))
             /\ Answer(get_version(nor_data')) = Answer(get_version(nor_data))
             /\ Answer(get_wifi_mac(nor_data')) = Answer(get_wifi_mac(nor_data))
             /\ Answer(get_lan_mac(nor_data')) = Answer(get_lan_mac(nor_data))
     /\ (last'.op = "set_version" /\ last'.raised = NoError)
          => /\ \A f \in { <<SERIAL_OFFSET, SERIAL_LENGTH>>,
                           <<MOBO_SERIAL_OFFSET, SERIAL_LENGTH>>,
                           <<WIFI_MAC_OFFSET, MAC_LENGTH>>,
                           <<LAN_MAC_OFFSET, MAC_LENGTH>> } :
                  Slice(nor_data', f[1], f[1] + f[2])
                    = Slice(nor_data, f[1], f[1] + f[2])
             /\ Answer(get_serial_number(nor_data'))
                  = Answer(get_serial_number(nor_data))
             /\ Answer(get_motherboard_serial(nor_data'))
                  = Answer(get_motherboard_serial(nor_data))
             /\ Answer(get_wifi_mac(nor_data')) = Answer(get_wifi_mac(nor_data))
             /\ Answer(get_lan_mac(nor_data')) = Answer(get_lan_mac(nor_data))
    ]_vars

\* C30 happens: a serial number was written into an image that holds every
\* field, and the motherboard serial is read from it.
C30_Witness ==
  /\ last.op = "set_serial_number"
  /\ last.raised = NoError
  /\ ImageLen(nor_data) >= WIFI_MAC_OFFSET + MAC_LENGTH
  /\ get_motherboard_serial(nor_data).raised = NoError
  /\ get_serial_number(nor_data).ret # <<>>

\* The edition get_version names for set_version's argument.
EditionOf(is_disc_edition) ==
  IF is_disc_edition THEN DISC_EDITION ELSE DIGITAL_EDITION

\* C31: set_version and get_version agree.  A get_version right after a
\* successful set_version(true) returns Disc Edition, and after a successful
\* set_version(false) Digital Edition, whatever the flags held before; the
\* same holds of the image the call leaves, and the same set_version once
\* more succeeds and leaves that image as it is.
C31_SetThenGetVersion ==
  [][/\ (/\ last.op = "set_version"
         /\ last.raised = NoError
         /\ last'.op = "get_version")
          => /\ last'.raised = NoError
             /\ last'.ret = EditionOf(last.args[1])
     /\ (last'.op = "set_version" /\ last'.raised = NoError)
          => /\ last'.flag
             /\ Answer(get_version(nor_data'))
                  = <<NoError, <<>>, EditionOf(last'.args[1])>>
             /\ set_version(nor_data', last'.args[1]).raised = NoError
             /\ set_version(nor_data', last'.args[1]).data = nor_data'
    ]_vars

\* C31 happens: set_version(false) succeeded on an image that holds every
\* field, and the image now reads Digital Edition.
C31_Witness ==
  /\ last.op = "set_version"
  /\ last.raised = NoError
  /\ last.args = <<FALSE>>
  /\ get_version(nor_data).ret = DIGITAL_EDITION
  /\ ImageLen(nor_data) >= WIFI_MAC_OFFSET + MAC_LENGTH

=============================================================================
